---- MODULE Spec2Model ----
(***************************************************************************)
(* A model of yfusion, a Go client for the Yelp Fusion v3 API.             *)
(*                                                                         *)
(*   - BusinessSearchParams, its setters and Params() (src/unnamed/part_000) *)
(*   - the YelpFusion client: getRequest, the four operations and their    *)
(*     ...Response variants (yelp.go, the current revision, lines 108-339) *)
(*                                                                         *)
(* Representation.  A Go string is a sequence of one-character strings.   *)
(* A Go pointer field is a sequence of length 0 (nil) or 1 (the pointee). *)
(* A Go error is a TLA+ string holding its message; NoErr is the nil      *)
(* error.  A float64 is the integer number of millionths it denotes, so   *)
(* that the verb %f (six decimals) is computed rather than assumed.       *)
(***************************************************************************)
EXTENDS Integers, Sequences, FiniteSets, TLC

(***************************************************************************)
(* Bounds of the model.                                                    *)
(***************************************************************************)
\* Offset is drawn from 0..MaxOffset.
MaxOffset == 1

(***************************************************************************)
(* Pointers and errors.                                                    *)
(***************************************************************************)
Nil == <<>>
Some(v) == <<v>>
Deref(p) == p[1]

NoErr == "<nil>"
ErrMissingLocation == "error missing required fields: Location or (Latitude and Longitude)"
ErrOpenBoth == "cannot set both open_at and open_now parameters"
ErrPhoneRequired == "phone number is required"

(***************************************************************************)
(* Strings and formatting.                                                 *)
(***************************************************************************)
Digit(d) == CASE d = 0 -> "0" [] d = 1 -> "1" [] d = 2 -> "2" [] d = 3 -> "3"
              [] d = 4 -> "4" [] d = 5 -> "5" [] d = 6 -> "6" [] d = 7 -> "7"
              [] d = 8 -> "8" [] d = 9 -> "9"

RECURSIVE FormatNat(_)
FormatNat(n) == IF n < 10 THEN <<Digit(n)>>
                ELSE FormatNat(n \div 10) \o <<Digit(n % 10)>>

\* fmt verb %d
FormatInt(i) == IF i < 0 THEN <<"-">> \o FormatNat(0 - i) ELSE FormatNat(i)

RECURSIVE ZeroPad(_, _)
ZeroPad(s, w) == IF Len(s) >= w THEN s ELSE ZeroPad(<<"0">> \o s, w)

\* fmt verb %f of the float64 whose value is m millionths
FormatFloat(m) ==
    LET a == IF m < 0 THEN 0 - m ELSE m
        sign == IF m < 0 THEN <<"-">> ELSE <<>>
    IN sign \o FormatNat(a \div 1000000) \o <<".">> \o ZeroPad(FormatNat(a % 1000000), 6)

\* fmt verb %v of a bool
FormatBool(b) == IF b THEN <<"t", "r", "u", "e">> ELSE <<"f", "a", "l", "s", "e">>

\* net/url shouldEscape, mode encodeQueryComponent: letters, digits and -_.~ pass
Unreserved == {"a", "b", "c", "d", "e", "f", "g", "h", "i", "j", "k", "l", "m",
               "n", "o", "p", "q", "r", "s", "t", "u", "v", "w", "x", "y", "z",
               "A", "B", "C", "D", "E", "F", "G", "H", "I", "J", "K", "L", "M",
               "N", "O", "P", "Q", "R", "S", "T", "U", "V", "W", "X", "Y", "Z",
               "0", "1", "2", "3", "4", "5", "6", "7", "8", "9",
               "-", "_", ".", "~"}

\* the two upper-case hex digits of the ASCII code of a character of the model
HexOf(c) == CASE c = "&" -> <<"2", "6">>
              [] c = "," -> <<"2", "C">>
              [] c = "=" -> <<"3", "D">>
              [] c = "+" -> <<"2", "B">>
              [] c = "%" -> <<"2", "5">>
              [] c = "?" -> <<"3", "F">>
              [] c = "/" -> <<"2", "F">>
              [] c = "\t" -> <<"0", "9">>

EscapeChar(c) == IF c = " " THEN <<"+">>
                 ELSE IF c \in Unreserved THEN <<c>>
                 ELSE <<"%">> \o HexOf(c)

\* url.QueryEscape
RECURSIVE QueryEscape(_)
QueryEscape(s) == IF s = <<>> THEN <<>>
                  ELSE EscapeChar(Head(s)) \o QueryEscape(Tail(s))

\* the literal parts of the format strings of getLocOrLatLong, getOpenAtOrNow and Params
KeyLocation == <<"l", "o", "c", "a", "t", "i", "o", "n", "=">>
KeyLatitude == <<"l", "a", "t", "i", "t", "u", "d", "e", "=">>
KeyLongitude == <<"l", "o", "n", "g", "i", "t", "u", "d", "e", "=">>
KeyTerm == <<"t", "e", "r", "m", "=">>
KeyRadius == <<"r", "a", "d", "i", "u", "s", "=">>
KeyCategories == <<"c", "a", "t", "e", "g", "o", "r", "i", "e", "s", "=">>
KeyLocale == <<"l", "o", "c", "a", "l", "e", "=">>
KeyLimit == <<"l", "i", "m", "i", "t", "=">>
KeyOffset == <<"o", "f", "f", "s", "e", "t", "=">>
KeySortBy == <<"s", "o", "r", "t", "_", "b", "y", "=">>
KeyPrice == <<"p", "r", "i", "c", "e", "=">>
KeyOpenNow == <<"o", "p", "e", "n", "_", "n", "o", "w", "=">>
KeyOpenAt == <<"o", "p", "e", "n", "_", "a", "t", "=">>
KeyAttributes == <<"a", "t", "t", "r", "i", "b", "u", "t", "e", "s", "=">>
Amp == <<"&">>

(***************************************************************************)
(* BusinessSearchParams.                                                   *)
(***************************************************************************)
EmptyParams == [Term |-> Nil, Location |-> Nil, Latitude |-> Nil, Longitude |-> Nil,
                Radius |-> Nil, Categories |-> Nil, Locale |-> Nil, Limit |-> Nil,
                Offset |-> Nil, SortBy |-> Nil, Price |-> Nil, OpenNow |-> Nil,
                OpenAt |-> Nil, Attributes |-> Nil]

\* a (string, error) return
Ret(q, e) == [q |-> q, err |-> e]

getLocOrLatLong(bus) ==
    IF bus.Location = Nil /\ bus.Latitude = Nil /\ bus.Longitude = Nil
    THEN Ret(<<>>, ErrMissingLocation)
    ELSE LET sb1 == IF bus.Location # Nil
                    THEN KeyLocation \o QueryEscape(Deref(bus.Location))
                    ELSE <<>>
             sb2 == IF bus.Latitude # Nil /\ bus.Longitude # Nil
                    THEN (IF Len(sb1) > 0 THEN sb1 \o Amp ELSE sb1)
                         \o KeyLatitude \o FormatFloat(Deref(bus.Latitude))
                         \o Amp \o KeyLongitude \o FormatFloat(Deref(bus.Longitude))
                    ELSE sb1
         IN Ret(sb2, NoErr)

\* getOpenAtOrNow without its check of both fields (open_now wins)
getOpenAtOrNow_NoCheck(bus) ==
    IF bus.OpenNow # Nil THEN Ret(KeyOpenNow \o FormatBool(Deref(bus.OpenNow)), NoErr)
    ELSE IF bus.OpenAt # Nil THEN Ret(KeyOpenAt \o FormatInt(Deref(bus.OpenAt)), NoErr)
    ELSE Ret(<<>>, NoErr)

getOpenAtOrNow(bus) ==
    IF bus.OpenAt # Nil /\ bus.OpenNow # Nil THEN Ret(<<>>, ErrOpenBoth)
    ELSE IF bus.OpenNow # Nil THEN Ret(KeyOpenNow \o FormatBool(Deref(bus.OpenNow)), NoErr)
    ELSE IF bus.OpenAt # Nil THEN Ret(KeyOpenAt \o FormatInt(Deref(bus.OpenAt)), NoErr)
    ELSE Ret(<<>>, NoErr)

\* a step that writes the separator after the clause instead of before it
WriteField_AmpAfter(sb, p, text) == IF p # Nil THEN sb \o text \o Amp ELSE sb

\* one "if field != nil { sb.WriteString("&"); sb.WriteString(key=value) }" step
WriteField(sb, p, text) == IF p # Nil THEN sb \o Amp \o text ELSE sb

Params(bs) ==
    LET loc == getLocOrLatLong(bs)
    IN IF loc.err # NoErr THEN Ret(<<>>, loc.err)
       ELSE
       LET s0 == loc.q
           s1 == WriteField(s0, bs.Term, KeyTerm \o QueryEscape(Deref(bs.Term)))
           s2 == WriteField(s1, bs.Radius, KeyRadius \o FormatInt(Deref(bs.Radius)))
           s3 == WriteField(s2, bs.Categories, KeyCategories \o QueryEscape(Deref(bs.Categories)))
           s4 == WriteField(s3, bs.Locale, KeyLocale \o QueryEscape(Deref(bs.Locale)))
           s5 == WriteField(s4, bs.Limit, KeyLimit \o FormatInt(Deref(bs.Limit)))
           s6 == WriteField(s5, bs.Offset, KeyOffset \o FormatInt(Deref(bs.Offset)))
           s7 == WriteField(s6, bs.SortBy, KeySortBy \o QueryEscape(Deref(bs.SortBy)))
           s8 == WriteField(s7, bs.Price, KeyPrice \o QueryEscape(Deref(bs.Price)))
           open == getOpenAtOrNow(bs)
       IN IF open.err # NoErr THEN Ret(<<>>, open.err)
          ELSE
          LET s9 == IF open.q # <<>> THEN s8 \o Amp \o open.q ELSE s8
              s10 == WriteField(s9, bs.Attributes,
                                KeyAttributes \o QueryEscape(Deref(bs.Attributes)))
          IN Ret(s10, NoErr)

(***************************************************************************)
(* State.                                                                  *)
(***************************************************************************)
VARIABLES
    bs,        \* the BusinessSearchParams record the caller is filling
    pret,      \* what Params() returned for bs, until bs is next mutated
    setCalls,  \* per field, the argument of the last call of its setter (Nil: never called)
    yf,        \* the YelpFusion client: Nil before construction, then Some([apiKey])
    pc,        \* where the current call of a client operation is
    call,      \* the operation called and its arguments
    req,       \* the *http.Request getRequest returned (Nil or Some)
    built,     \* how many requests the current call has constructed
    sent,      \* the requests the current call has handed to client.Do
    resp,      \* what client.Do returned: Nil or Some([resp, err])
    body,      \* the response body stream: [read, closed]
    out,       \* what the call returned to the caller: Nil or Some(...)
    cancelled, \* the contexts that are cancelled or past their deadline
    hist       \* [cancelledInFlight]: the caller's context was cancelled in flight

vars == <<bs, pret, setCalls, yf, pc, call, req, built, sent, resp, body, out, cancelled, hist>>
paramVars == <<bs, pret, setCalls>>
clientVars == <<yf, pc, call, req, built, sent, resp, body, out, cancelled, hist>>

(***************************************************************************)
(* Inputs of the setters.                                                  *)
(***************************************************************************)
StrAustin == <<"A", "u", "s", "t", "i", "n", ",", " ", "T", "X">>
StrFood == <<"f", "o", "o", "d">>
LocationVals == {<<>>, StrAustin}
TermVals == {StrFood}
LatitudeVals == {0, 30000000}
LongitudeVals == {-97000000}
RadiusVals == {40000}
CategoriesVals == {<<"b", "a", "r", "s", ",", "p", "u", "b", "s">>}
LocaleVals == {<<"e", "n", "_", "U", "S">>}
LimitVals == {50}
OffsetVals == 0..MaxOffset
SortByVals == {<<"r", "a", "t", "i", "n", "g">>}
PriceVals == {<<"1", ",", " ", "2">>}
OpenNowVals == {FALSE, TRUE}
OpenAtVals == {1500000000}
AttributesVals == {<<"d", "e", "a", "l", "s">>}

(***************************************************************************)
(* The setters: each allocates a fresh pointee and stores the argument.    *)
(***************************************************************************)
Set(field, v) == /\ pc = "idle"
                 /\ bs' = [bs EXCEPT ![field] = Some(v)]
                 /\ pret' = Nil
                 /\ UNCHANGED clientVars

SetTerm == \E s \in TermVals :
    Set("Term", s) /\ setCalls' = [setCalls EXCEPT !.Term = Some(s)]
SetLocation == \E s \in LocationVals :
    Set("Location", s) /\ setCalls' = [setCalls EXCEPT !.Location = Some(s)]
SetLatitude == \E i \in LatitudeVals :
    Set("Latitude", i) /\ setCalls' = [setCalls EXCEPT !.Latitude = Some(i)]
\* SetLongitude pasted from SetLatitude with the field left unchanged
SetLongitude_WritesLatitude == \E i \in LongitudeVals :
    Set("Latitude", i) /\ setCalls' = [setCalls EXCEPT !.Longitude = Some(i)]

SetLongitude == \E i \in LongitudeVals :
    Set("Longitude", i) /\ setCalls' = [setCalls EXCEPT !.Longitude = Some(i)]
SetRadius == \E i \in RadiusVals :
    Set("Radius", i) /\ setCalls' = [setCalls EXCEPT !.Radius = Some(i)]
SetCategories == \E s \in CategoriesVals :
    Set("Categories", s) /\ setCalls' = [setCalls EXCEPT !.Categories = Some(s)]
SetLocale == \E s \in LocaleVals :
    Set("Locale", s) /\ setCalls' = [setCalls EXCEPT !.Locale = Some(s)]
SetLimit == \E i \in LimitVals :
    Set("Limit", i) /\ setCalls' = [setCalls EXCEPT !.Limit = Some(i)]
SetOffset == \E i \in OffsetVals :
    Set("Offset", i) /\ setCalls' = [setCalls EXCEPT !.Offset = Some(i)]
SetSortBy == \E s \in SortByVals :
    Set("SortBy", s) /\ setCalls' = [setCalls EXCEPT !.SortBy = Some(s)]
SetPrice == \E s \in PriceVals :
    Set("Price", s) /\ setCalls' = [setCalls EXCEPT !.Price = Some(s)]
SetOpenNow == \E b \in OpenNowVals :
    Set("OpenNow", b) /\ setCalls' = [setCalls EXCEPT !.OpenNow = Some(b)]
SetOpenAt == \E i \in OpenAtVals :
    Set("OpenAt", i) /\ setCalls' = [setCalls EXCEPT !.OpenAt = Some(i)]
SetAttributes == \E s \in AttributesVals :
    Set("Attributes", s) /\ setCalls' = [setCalls EXCEPT !.Attributes = Some(s)]

\* the caller calls bs.Params()
CallParams == /\ pc = "idle"
              /\ pret = Nil
              /\ pret' = Some(Params(bs))
              /\ UNCHANGED <<bs, setCalls>>
              /\ UNCHANGED clientVars

(***************************************************************************)
(* Initial state and the specification of the parameter builder.          *)
(***************************************************************************)
Keys == {<<"k", "1">>, <<"K", "-", "2">>}

Init == /\ bs = EmptyParams
        /\ pret = Nil
        /\ setCalls = EmptyParams
        /\ yf = Nil
        /\ pc = "idle"
        /\ call = Nil
        /\ req = Nil
        /\ built = 0
        /\ sent = <<>>
        /\ resp = Nil
        /\ body = [read |-> FALSE, closed |-> FALSE]
        /\ out = Nil
        /\ cancelled = {}
        /\ hist = [cancelledInFlight |-> FALSE]

NextParams == \/ SetTerm \/ SetLocation \/ SetLatitude \/ SetLongitude
              \/ SetRadius \/ SetCategories \/ SetLocale \/ SetLimit
              \/ SetOffset \/ SetSortBy \/ SetPrice \/ SetOpenNow
              \/ SetOpenAt \/ SetAttributes \/ CallParams

SpecParams == Init /\ [][NextParams]_vars

(***************************************************************************)
(* The YelpFusion client (src/yelp.go, lines 108-339).                     *)
(***************************************************************************)
baseURL == <<"h", "t", "t", "p", "s", ":", "/", "/", "a", "p", "i", ".", "y", "e", "l", "p",
             ".", "c", "o", "m", "/", "v", "3">>
busDetails == <<"/", "b", "u", "s", "i", "n", "e", "s", "s", "e", "s">>
busSearch == busDetails \o <<"/", "s", "e", "a", "r", "c", "h">>
phoneSearch == busSearch \o <<"/", "p", "h", "o", "n", "e">>
reviewSearch == <<"/", "r", "e", "v", "i", "e", "w", "s">>
QLocale == <<"?", "l", "o", "c", "a", "l", "e", "=">>
QPhone == <<"?", "p", "h", "o", "n", "e", "=">>
Bearer == <<"B", "e", "a", "r", "e", "r", " ">>

StatusOK == 200
StatusMovedPermanently == 301

\* contexts: the nil context.Context, context.Background(), and the caller's
NilCtx == "nil"
Background == "background"
CallerCtx == "ctx"

ErrCanceled == "context canceled"
ErrTransport == "dial tcp: connection refused"
ErrURLEscape == "parse: invalid URL escape"
ErrJSON == "invalid character looking for beginning of value"

\* strings.TrimSpace
IsSpace(c) == c \in {" ", "\t", "\n", "\r"}
RECURSIVE TrimLeft(_)
TrimLeft(s) == IF s # <<>> /\ IsSpace(Head(s)) THEN TrimLeft(Tail(s)) ELSE s
RECURSIVE TrimRight(_)
TrimRight(s) == IF s # <<>> /\ IsSpace(s[Len(s)]) THEN TrimRight(SubSeq(s, 1, Len(s) - 1)) ELSE s
TrimSpace(s) == TrimRight(TrimLeft(s))

\* url.Parse, as far as http.NewRequest depends on it: a '%' of the path that
\* is not followed by two hex digits is an invalid URL escape
HexDigits == {"0", "1", "2", "3", "4", "5", "6", "7", "8", "9",
              "a", "b", "c", "d", "e", "f", "A", "B", "C", "D", "E", "F"}
RECURSIVE PathOf(_)
PathOf(u) == IF u = <<>> \/ Head(u) = "?" THEN <<>> ELSE <<Head(u)>> \o PathOf(Tail(u))
BadEscape(u) == LET path == PathOf(u)
                IN \E i \in 1..Len(path) :
                      /\ path[i] = "%"
                      /\ ~(i + 2 <= Len(path) /\ path[i + 1] \in HexDigits
                                              /\ path[i + 2] \in HexDigits)

\* http.NewRequest(method, url, nil): the request carries context.Background()
NewRequest(method, url) ==
    IF BadEscape(url) THEN [req |-> Nil, err |-> ErrURLEscape]
    ELSE [req |-> Some([Method |-> method, URL |-> url, Authorization |-> Nil,
                        ctx |-> Background]),
          err |-> NoErr]

\* (*http.Request).WithContext: a shallow copy of r with its context changed
WithContext(r, ctx) == [r EXCEPT !.ctx = ctx]

\* getRequest that sends the bare key as the Authorization header
getRequest_BareKey(y, ctx, method, url) ==
    LET nr == NewRequest(method, url)
    IN IF nr.err # NoErr THEN [req |-> Nil, err |-> nr.err]
       ELSE [req |-> Some([Deref(nr.req) EXCEPT !.Authorization = Some(y.apiKey)]),
             err |-> NoErr]

\* the copy WithContext returns is dropped: the request returned is the one
\* NewRequest made, with the header set
getRequest(y, ctx, method, url) ==
    LET nr == NewRequest(method, url)
    IN IF nr.err # NoErr THEN [req |-> Nil, err |-> nr.err]
       ELSE LET r == [Deref(nr.req) EXCEPT !.Authorization = Some(Bearer \o y.apiKey)]
                copy == IF ctx # NilCtx THEN WithContext(r, ctx) ELSE r
            IN [req |-> Some(r), err |-> NoErr]

\* The part of a ...Response method before "return yf.client.Do(req)":
\* [req, err, built], built counting the requests constructed.
Prepared(gr) == [req |-> gr.req, err |-> gr.err, built |-> IF gr.err = NoErr THEN 1 ELSE 0]
Rejected(e) == [req |-> Nil, err |-> e, built |-> 0]
GET == <<"G", "E", "T">>

\* SearchBusinessResponse that builds its URL without looking at the error of Params()
SearchBusinessResponse_NoValidation(y, ctx, bus) ==
    Prepared(getRequest(y, ctx, GET, baseURL \o busSearch \o <<"?">> \o Params(bus).q))

SearchBusinessResponse(y, ctx, bus) ==
    LET p == Params(bus)
    IN IF p.err # NoErr THEN Rejected(p.err)
       ELSE Prepared(getRequest(y, ctx, GET, baseURL \o busSearch \o <<"?">> \o p.q))

\* the locale test without strings.TrimSpace
WithLocale_NoTrim(urlStr, locale) ==
    IF locale # <<>> THEN urlStr \o QLocale \o QueryEscape(locale) ELSE urlStr

WithLocale(urlStr, locale) ==
    IF TrimSpace(locale) # <<>> THEN urlStr \o QLocale \o QueryEscape(locale) ELSE urlStr

SearchBusinessDetailsWithLocaleResponse(y, ctx, busID, locale) ==
    Prepared(getRequest(y, ctx, GET,
                        WithLocale(baseURL \o busDetails \o <<"/">> \o busID, locale)))

SearchBusinessesByPhoneResponse(y, ctx, phoneNumber) ==
    IF TrimSpace(phoneNumber) = <<>> THEN Rejected(ErrPhoneRequired)
    ELSE Prepared(getRequest(y, ctx, GET,
                             baseURL \o phoneSearch \o QPhone \o QueryEscape(phoneNumber)))

SearchBusinessReviewsWithLocaleResponse(y, ctx, busID, locale) ==
    Prepared(getRequest(y, ctx, GET,
                        WithLocale(baseURL \o busDetails \o <<"/">> \o busID \o reviewSearch,
                                   locale)))

(***************************************************************************)
(* Responses and JSON decoding.                                            *)
(***************************************************************************)
StatusCodes == {200, 301, 404, 500}
StatusLine(code) == CASE code = 200 -> "200 OK"
                      [] code = 301 -> "301 Moved Permanently"
                      [] code = 404 -> "404 Not Found"
                      [] code = 500 -> "500 Internal Server Error"

\* JSON documents a server may send
Migrated == [code |-> "BUSINESS_MIGRATED", description |-> "moved", new_business_id |-> "new-id"]
Bodies == {[kind |-> "malformed"],
           [kind |-> "null"],
           [kind |-> "object", fields |-> [total |-> 2, id |-> "b1", name |-> "Cafe"]],
           [kind |-> "object", fields |-> [error |-> Migrated]],
           [kind |-> "object", fields |-> [total |-> 2, id |-> "b1", error |-> Migrated]]}

Get(fields, key, zero) == IF key \in DOMAIN fields THEN fields[key] ELSE zero

\* a field of type *ReviewError or *BusinessMigratedError, from the key "error"
DecodeError(fields) ==
    IF "error" \in DOMAIN fields
    THEN Some([Code |-> Get(fields.error, "code", ""),
               Description |-> Get(fields.error, "description", ""),
               NewBusinessID |-> Get(fields.error, "new_business_id", "")])
    ELSE Nil

BusinessSearchData(f) == [Total |-> Get(f, "total", 0)]
DetailedBusinessInfo(f) == [ID |-> Get(f, "id", ""), Name |-> Get(f, "name", ""),
                            Error |-> DecodeError(f)]
ReviewsData(f) == [Total |-> Get(f, "total", 0), Error |-> DecodeError(f)]

\* the struct each decoding method decodes into
Fill(op, f) == CASE op = "search" -> BusinessSearchData(f)
                 [] op = "phone" -> BusinessSearchData(f)
                 [] op = "details" -> DetailedBusinessInfo(f)
                 [] op = "reviews" -> ReviewsData(f)

\* json.NewDecoder(resp.Body).Decode(&v) for v a nil pointer to a struct:
\* malformed input is an error, null leaves v nil, an object allocates the struct
DecodeFor(op, b) ==
    IF b.kind = "malformed" THEN [val |-> Nil, err |-> ErrJSON]
    ELSE IF b.kind = "null" THEN [val |-> Nil, err |-> NoErr]
    ELSE [val |-> Some(Fill(op, b.fields)), err |-> NoErr]

\* the status check of every decoding method accepting 200 and 301
Accepted_AlsoMoved(op, code) == code = StatusOK \/ code = StatusMovedPermanently

\* the status check of every decoding method accepting 200 only
Accepted_OnlyOK(op, code) == code = StatusOK

\* the status check of the decoding methods
Accepted(op, code) ==
    IF op = "reviews" THEN code = StatusOK \/ code = StatusMovedPermanently
    ELSE code = StatusOK

(***************************************************************************)
(* Inputs of the client operations.                                        *)
(***************************************************************************)
WithLoc == [EmptyParams EXCEPT !.Location = Some(StrAustin)]
SearchInputs ==
    {EmptyParams,
     WithLoc,
     [WithLoc EXCEPT !.Term = Some(StrFood), !.OpenNow = Some(TRUE)],
     [WithLoc EXCEPT !.OpenNow = Some(FALSE), !.OpenAt = Some(1500000000)],
     [EmptyParams EXCEPT !.OpenNow = Some(TRUE), !.OpenAt = Some(1500000000)],
     [EmptyParams EXCEPT !.Latitude = Some(30000000)],
     [EmptyParams EXCEPT !.Latitude = Some(30000000), !.Longitude = Some(-97000000)]}
BusIDs == {<<"b", "1">>, <<"b", "%", "z">>}
Locales == {<<>>, <<" ">>, <<"e", "n", "_", "U", "S">>}
PhoneNumbers == {<<>>, <<" ", "\t">>, <<"+", "1", "5", "1", "2">>}
Contexts == {NilCtx, CallerCtx}

(***************************************************************************)
(* The client: construction and the calls of its operations.               *)
(***************************************************************************)
\* NewYelpFusion(key) / NewYelpFusionWithClient(key, client)
NewYelpFusion == /\ yf = Nil
                 /\ \E key \in Keys : yf' = Some([apiKey |-> key])
                 /\ UNCHANGED <<bs, pret, setCalls, pc, call, req, built, sent, resp, body, out,
                                cancelled, hist>>

Result(val, r, e) == [val |-> val, resp |-> r, err |-> e]

\* A call runs up to client.Do: it returns the error of validation or of
\* request construction, or has a request to send.
Start(c, prep) ==
    /\ pc = "idle"
    /\ yf # Nil
    /\ call' = Some(c)
    /\ built' = prep.built
    /\ IF prep.err # NoErr
       THEN /\ pc' = "done"
            /\ req' = Nil
            /\ out' = Some(Result(Nil, Nil, prep.err))
       ELSE /\ pc' = "send"
            /\ req' = prep.req
            /\ out' = Nil
    /\ UNCHANGED <<bs, pret, setCalls, yf, sent, resp, body, cancelled, hist>>

Args(op, decode, ctx, bus, busID, locale, phone) ==
    [op |-> op, decode |-> decode, ctx |-> ctx, bus |-> bus, busID |-> busID,
     locale |-> locale, phoneNumber |-> phone]

\* SearchBusiness, SearchBusinessWithContext (decode) and SearchBusinessResponse
CallSearchBusiness ==
    \E decode \in BOOLEAN, ctx \in Contexts, bus \in SearchInputs :
        Start(Args("search", decode, ctx, bus, <<>>, <<>>, <<>>),
              SearchBusinessResponse(Deref(yf), ctx, bus))

\* SearchBusinessDetails, SearchBusinessDetailsWithLocale and ...Response
CallSearchBusinessDetails ==
    \E decode \in BOOLEAN, ctx \in Contexts, busID \in BusIDs, locale \in Locales :
        Start(Args("details", decode, ctx, EmptyParams, busID, locale, <<>>),
              SearchBusinessDetailsWithLocaleResponse(Deref(yf), ctx, busID, locale))

\* SearchBusinessesByPhone, SearchBusinessesByPhoneWithContext and ...Response
CallSearchBusinessesByPhone ==
    \E decode \in BOOLEAN, ctx \in Contexts, phone \in PhoneNumbers :
        Start(Args("phone", decode, ctx, EmptyParams, <<>>, <<>>, phone),
              SearchBusinessesByPhoneResponse(Deref(yf), ctx, phone))

\* SearchBusinessReviews, SearchBusinessReviewsWithLocale and ...Response
CallSearchBusinessReviews ==
    \E decode \in BOOLEAN, ctx \in Contexts, busID \in BusIDs, locale \in Locales :
        Start(Args("reviews", decode, ctx, EmptyParams, busID, locale, <<>>),
              SearchBusinessReviewsWithLocaleResponse(Deref(yf), ctx, busID, locale))

\* yf.client.Do(req): the request is handed to the transport
Do == /\ pc = "send"
      /\ sent' = Append(sent, Deref(req))
      /\ pc' = "inflight"
      /\ UNCHANGED <<bs, pret, setCalls, yf, call, req, built, resp, body, out, cancelled, hist>>

\* the caller's context is cancelled, or its deadline passes
Cancel == /\ pc \in {"idle", "send", "inflight"}
          /\ CallerCtx \notin cancelled
          /\ cancelled' = cancelled \cup {CallerCtx}
          /\ hist' = [hist EXCEPT !.cancelledInFlight =
                         @ \/ (pc = "inflight" /\ Deref(call).ctx = CallerCtx)]
          /\ UNCHANGED <<bs, pret, setCalls, yf, pc, call, req, built, sent, resp, body, out>>

\* The transport completes the request it was handed: with the error of the
\* request's context if that context is cancelled, otherwise with a network
\* error or with a response of any status and body.
TransportOutcomes ==
    {[resp |-> Nil, err |-> ErrTransport]}
    \cup {[resp |-> Some([StatusCode |-> code, Status |-> StatusLine(code), Body |-> b]),
           err |-> NoErr] : code \in StatusCodes, b \in Bodies}

TransportReturn ==
    /\ pc = "inflight"
    /\ IF sent[Len(sent)].ctx \in cancelled
       THEN resp' = Some([resp |-> Nil, err |-> ErrCanceled])
       ELSE \E o \in TransportOutcomes : resp' = Some(o)
    /\ pc' = "returned"
    /\ UNCHANGED <<bs, pret, setCalls, yf, call, req, built, sent, body, out, cancelled, hist>>

\* a ...Response method that turns a status it does not accept into an error
Complete_ResponseChecksStatus ==
    LET c == Deref(call)
        r == Deref(resp)
    IN /\ IF r.err # NoErr
          THEN out' = Some(Result(Nil, Nil, r.err)) /\ UNCHANGED body
          ELSE IF ~Accepted(c.op, Deref(r.resp).StatusCode)
          THEN out' = Some(Result(Nil, Nil, Deref(r.resp).Status)) /\ UNCHANGED body
          ELSE IF ~c.decode
          THEN out' = Some(Result(Nil, r.resp, r.err)) /\ UNCHANGED body
          ELSE LET d == DecodeFor(c.op, Deref(r.resp).Body)
               IN /\ out' = Some(Result(IF d.err # NoErr THEN Nil ELSE d.val, Nil, d.err))
                  /\ body' = [read |-> TRUE, closed |-> TRUE]
       /\ pc' = "done"
       /\ UNCHANGED <<bs, pret, setCalls, yf, call, req, built, sent, resp, cancelled, hist>>

\* The rest of the call once client.Do has returned: a ...Response method
\* returns what Do returned; a decoding method returns Do's error, or the
\* status as an error, or decodes the body and closes it.
Complete ==
    LET c == Deref(call)
        r == Deref(resp)
    IN /\ IF ~c.decode
          THEN out' = Some(Result(Nil, r.resp, r.err)) /\ UNCHANGED body
          ELSE IF r.err # NoErr
          THEN out' = Some(Result(Nil, Nil, r.err)) /\ UNCHANGED body
          ELSE IF ~Accepted(c.op, Deref(r.resp).StatusCode)
          THEN out' = Some(Result(Nil, Nil, Deref(r.resp).Status)) /\ UNCHANGED body
          ELSE LET d == DecodeFor(c.op, Deref(r.resp).Body)
               IN /\ out' = Some(Result(IF d.err # NoErr THEN Nil ELSE d.val, Nil, d.err))
                  /\ body' = [read |-> TRUE, closed |-> TRUE]
       /\ pc' = "done"
       /\ UNCHANGED <<bs, pret, setCalls, yf, call, req, built, sent, resp, cancelled, hist>>

\* a call that hands its request to the transport again after an error of Do
Finish_Retry ==
    /\ pc = "returned"
    /\ IF Deref(resp).err # NoErr /\ Len(sent) < 2
       THEN /\ pc' = "send"
            /\ resp' = Nil
            /\ UNCHANGED <<bs, pret, setCalls, yf, call, req, built, sent, body, out, cancelled, hist>>
       ELSE Complete

Finish == /\ pc = "returned"
          /\ Complete

\* the call has returned; the caller goes on, with a fresh context
Return == /\ pc = "done"
          /\ pc' = "idle"
          /\ call' = Nil
          /\ req' = Nil
          /\ built' = 0
          /\ sent' = <<>>
          /\ resp' = Nil
          /\ body' = [read |-> FALSE, closed |-> FALSE]
          /\ out' = Nil
          /\ cancelled' = {}
          /\ hist' = [cancelledInFlight |-> FALSE]
          /\ UNCHANGED <<bs, pret, setCalls, yf>>

Next == \/ NewYelpFusion
        \/ CallSearchBusiness \/ CallSearchBusinessDetails
        \/ CallSearchBusinessesByPhone \/ CallSearchBusinessReviews
        \/ Do \/ Cancel \/ TransportReturn \/ Finish \/ Return

Spec == Init /\ [][Next]_vars

(***************************************************************************)
(* Vocabulary of the properties of the parameter builder.                  *)
(***************************************************************************)
RECURSIVE Join(_, _)
Join(parts, sep) == IF parts = <<>> THEN <<>>
                    ELSE IF Len(parts) = 1 THEN parts[1]
                    ELSE parts[1] \o sep \o Join(Tail(parts), sep)

\* the '&'-separated clauses of a query string ("" has the single clause "")
RECURSIVE SplitAmp(_, _)
SplitAmp(s, cur) == IF s = <<>> THEN <<cur>>
                    ELSE IF Head(s) = "&" THEN <<cur>> \o SplitAmp(Tail(s), <<>>)
                    ELSE SplitAmp(Tail(s), Append(cur, Head(s)))
Clauses(q) == SplitAmp(q, <<>>)

StartsWith(s, pre) == Len(s) >= Len(pre) /\ SubSeq(s, 1, Len(pre)) = pre
KeyedOf(cl, key) == LET Test(c) == StartsWith(c, key) IN SelectSeq(cl, Test)
ClausesWithKey(q, key) == KeyedOf(Clauses(q), key)
HasClauseWithKey(q, key) == ClausesWithKey(q, key) # <<>>

HasLatLong(b) == b.Latitude # Nil /\ b.Longitude # Nil
HasLocation(b) == b.Location # Nil \/ HasLatLong(b)
HasBothOpen(b) == b.OpenNow # Nil /\ b.OpenAt # Nil

\* the clause of each present field, in the documented order
Opt(p, text) == IF p # Nil THEN <<text>> ELSE <<>>
ExpectedClauses(b) ==
       Opt(b.Location, KeyLocation \o QueryEscape(Deref(b.Location)))
    \o (IF HasLatLong(b) THEN <<KeyLatitude \o FormatFloat(Deref(b.Latitude)),
                                KeyLongitude \o FormatFloat(Deref(b.Longitude))>>
        ELSE <<>>)
    \o Opt(b.Term, KeyTerm \o QueryEscape(Deref(b.Term)))
    \o Opt(b.Radius, KeyRadius \o FormatInt(Deref(b.Radius)))
    \o Opt(b.Categories, KeyCategories \o QueryEscape(Deref(b.Categories)))
    \o Opt(b.Locale, KeyLocale \o QueryEscape(Deref(b.Locale)))
    \o Opt(b.Limit, KeyLimit \o FormatInt(Deref(b.Limit)))
    \o Opt(b.Offset, KeyOffset \o FormatInt(Deref(b.Offset)))
    \o Opt(b.SortBy, KeySortBy \o QueryEscape(Deref(b.SortBy)))
    \o Opt(b.Price, KeyPrice \o QueryEscape(Deref(b.Price)))
    \o (IF b.OpenNow # Nil THEN <<KeyOpenNow \o FormatBool(Deref(b.OpenNow))>>
        ELSE Opt(b.OpenAt, KeyOpenAt \o FormatInt(Deref(b.OpenAt))))
    \o Opt(b.Attributes, KeyAttributes \o QueryEscape(Deref(b.Attributes)))

\* Params() has returned for the record bs
Built == pret # Nil
PQ == Deref(pret).q
PErr == Deref(pret).err

\* the open clauses of the returned query string
OpenClauses == LET cl == Clauses(PQ) IN KeyedOf(cl, KeyOpenNow) \o KeyedOf(cl, KeyOpenAt)

(***************************************************************************)
(* C1. Every record without Location and without both Latitude and        *)
(* Longitude (exactly one of the two included) makes Params() fail with   *)
(* the missing-required-location error and return no query string.        *)
(***************************************************************************)
C1_MissingLocationFails ==
    (Built /\ ~HasLocation(bs)) => (PErr = ErrMissingLocation /\ PQ = <<>>)

(***************************************************************************)
(* C2 as stated. Every record with both OpenNow and OpenAt makes Params() *)
(* fail with the mutual-exclusivity error, also when it lacks a location; *)
(* with exactly one of the two Params() emits exactly that clause, with   *)
(* neither it emits no open clause.                                       *)
(***************************************************************************)
C2_OpenRuleAsStated ==
    Built =>
        /\ HasBothOpen(bs) => PErr = ErrOpenBoth
        /\ (bs.OpenNow # Nil /\ bs.OpenAt = Nil) =>
               OpenClauses = <<KeyOpenNow \o FormatBool(Deref(bs.OpenNow))>>
        /\ (bs.OpenNow = Nil /\ bs.OpenAt # Nil) =>
               OpenClauses = <<KeyOpenAt \o FormatInt(Deref(bs.OpenAt))>>
        /\ (bs.OpenNow = Nil /\ bs.OpenAt = Nil) => OpenClauses = <<>>

(***************************************************************************)
(* C2 amended. The location check comes first: a record with Location,    *)
(* Latitude and Longitude all absent fails with the missing-location      *)
(* error whatever its open fields are.  Every other record with both      *)
(* OpenNow and OpenAt fails with the mutual-exclusivity error and returns *)
(* no query string; and whenever Params() succeeds, exactly one of the    *)
(* two being present yields exactly that one open clause and neither      *)
(* being present yields no open clause.                                   *)
(***************************************************************************)
NoLocationField(b) == b.Location = Nil /\ b.Latitude = Nil /\ b.Longitude = Nil

C2_OpenRule ==
    Built =>
        /\ NoLocationField(bs) => (PErr = ErrMissingLocation /\ PQ = <<>>)
        /\ (HasBothOpen(bs) /\ ~NoLocationField(bs)) => (PErr = ErrOpenBoth /\ PQ = <<>>)
        /\ (~HasBothOpen(bs) /\ ~NoLocationField(bs)) =>
               /\ PErr = NoErr
               /\ (bs.OpenNow # Nil) =>
                      OpenClauses = <<KeyOpenNow \o FormatBool(Deref(bs.OpenNow))>>
               /\ (bs.OpenAt # Nil) =>
                      OpenClauses = <<KeyOpenAt \o FormatInt(Deref(bs.OpenAt))>>
               /\ (bs.OpenNow = Nil /\ bs.OpenAt = Nil) => OpenClauses = <<>>

\* Params() was called on a record with a location and both open fields
C2_Witness == Built /\ HasBothOpen(bs) /\ bs.Location # Nil /\ PErr = ErrOpenBoth

(***************************************************************************)
(* C3. For every record with Location or both Latitude and Longitude and  *)
(* not both OpenNow and OpenAt, Params() succeeds and returns exactly the *)
(* '&'-join of the clauses of the present fields in the order location,   *)
(* latitude and longitude (a clause pair, present when both are), term,   *)
(* radius, categories, locale, limit, offset, sort_by, price, open_now or *)
(* open_at, attributes: no leading '?', no empty clause (so no leading or *)
(* trailing '&' and no '&&'); with Location, Latitude and Longitude all   *)
(* present both forms are emitted, and without Location no location=      *)
(* clause appears.                                                        *)
(***************************************************************************)
C3_FixedOrderJoin ==
    (Built /\ HasLocation(bs) /\ ~HasBothOpen(bs)) =>
        LET cl == Clauses(PQ)
            want == ExpectedClauses(bs)
        IN /\ PErr = NoErr
           /\ PQ = Join(want, Amp)
           /\ PQ # <<>> /\ Head(PQ) # "?"
           /\ \A i \in 1..Len(cl) : cl[i] # <<>>
           /\ Len(cl) = Len(want)
           /\ (bs.Location # Nil /\ HasLatLong(bs)) =>
                  /\ KeyedOf(cl, KeyLocation) # <<>>
                  /\ KeyedOf(cl, KeyLatitude) # <<>>
                  /\ KeyedOf(cl, KeyLongitude) # <<>>
           /\ (bs.Location = Nil) => KeyedOf(cl, KeyLocation) = <<>>

\* Params() was called on a record with every field present but OpenAt
C3_Witness ==
    /\ Built /\ PErr = NoErr
    /\ \A f \in DOMAIN bs : (f # "OpenAt") <=> (bs[f] # Nil)
    /\ Len(Clauses(PQ)) = 13

(***************************************************************************)
(* Vocabulary of the properties of the client.                             *)
(***************************************************************************)
InCall == call # Nil
TheCall == Deref(call)
Done == pc = "done"
TheOut == Deref(out)
\* client.Do returned a response (not an error) to the current call
Responded == resp # Nil /\ Deref(resp).err = NoErr
TheResp == Deref(Deref(resp).resp)

\* the input is one the validation of the operation rejects, and its error
FailsValidation(c) ==
    \/ c.op = "search" /\ (NoLocationField(c.bus) \/ HasBothOpen(c.bus))
    \/ c.op = "phone" /\ TrimSpace(c.phoneNumber) = <<>>
ValidationError(c) ==
    IF c.op = "phone" THEN ErrPhoneRequired
    ELSE IF NoLocationField(c.bus) THEN ErrMissingLocation
    ELSE ErrOpenBoth

(***************************************************************************)
(* C4. A search or phone-search call whose input fails validation (all of *)
(* Location, Latitude and Longitude absent; both OpenNow and OpenAt set;  *)
(* a phone number empty after trimming) returns the validation error and  *)
(* nothing else, having constructed no request and never having invoked   *)
(* the transport.                                                          *)
(***************************************************************************)
C4_ValidationBeforeTransport ==
    (InCall /\ FailsValidation(TheCall)) =>
        /\ Done
        /\ built = 0 /\ req = Nil
        /\ sent = <<>> /\ resp = Nil
        /\ out = Some(Result(Nil, Nil, ValidationError(TheCall)))

\* a search with a location and both open fields has returned
C4_Witness ==
    /\ InCall /\ Done /\ TheCall.op = "search"
    /\ TheCall.bus.Location # Nil /\ HasBothOpen(TheCall.bus)
    /\ TheOut.err = ErrOpenBoth /\ sent = <<>>

(***************************************************************************)
(* C5. When the context passed to a call is cancelled while the request   *)
(* is in flight, the call returns a cancellation error and no decoded     *)
(* result or response: the transport observes the caller's context.      *)
(***************************************************************************)
C5_CancelAborts ==
    (Done /\ hist.cancelledInFlight) => TheOut = Result(Nil, Nil, ErrCanceled)

(***************************************************************************)
(* C6. In the decoding variants of search, details and phone search, a    *)
(* response whose status code is not 200 (301 included) yields an error   *)
(* carrying the response's status text and a nil result, and the body is  *)
(* never read.                                                            *)
(***************************************************************************)
C6_NonOKIsError ==
    (Done /\ TheCall.decode /\ TheCall.op \in {"search", "details", "phone"}
          /\ Responded /\ TheResp.StatusCode # 200) =>
        /\ TheOut = Result(Nil, Nil, TheResp.Status)
        /\ ~body.read

\* a details call answered 301 with a JSON object has returned
C6_Witness ==
    /\ Done /\ TheCall.decode /\ TheCall.op = "details" /\ Responded
    /\ TheResp.StatusCode = 301 /\ TheResp.Body.kind = "object"
    /\ TheOut.err = "301 Moved Permanently"

(***************************************************************************)
(* C7. In the reviews operation a response is decoded if and only if its  *)
(* status code is 200 or 301; every other status yields an error carrying *)
(* the status text and a nil ReviewsData.                                 *)
(***************************************************************************)
C7_ReviewsAccepts200And301 ==
    (Done /\ TheCall.decode /\ TheCall.op = "reviews" /\ Responded) =>
        /\ body.read <=> TheResp.StatusCode \in {200, 301}
        /\ body.read => TheOut = Result(DecodeFor("reviews", TheResp.Body).val, Nil,
                                        DecodeFor("reviews", TheResp.Body).err)
        /\ ~body.read => TheOut = Result(Nil, Nil, TheResp.Status)

\* a reviews call answered 301 has returned a decoded ReviewsData
C7_Witness ==
    /\ Done /\ TheCall.decode /\ TheCall.op = "reviews" /\ Responded
    /\ TheResp.StatusCode = 301 /\ body.read /\ TheOut.val # Nil

(***************************************************************************)
(* C8. In the reviews operation a 301 response whose body carries         *)
(* new_business_id yields a ReviewsData whose Error field holds that      *)
(* identifier, and a 200 response never yields a ReviewsData whose Error  *)
(* field is non-nil, whatever its body.                                   *)
(***************************************************************************)
CarriesNewBusinessID(b) ==
    /\ b.kind = "object"
    /\ "error" \in DOMAIN b.fields
    /\ "new_business_id" \in DOMAIN b.fields.error

C8_ErrorOnlyOn301 ==
    (Done /\ TheCall.decode /\ TheCall.op = "reviews" /\ Responded) =>
        /\ (TheResp.StatusCode = 301 /\ CarriesNewBusinessID(TheResp.Body)) =>
               /\ TheOut.val # Nil
               /\ Deref(TheOut.val).Error # Nil
               /\ Deref(Deref(TheOut.val).Error).NewBusinessID
                      = TheResp.Body.fields.error.new_business_id
        /\ (TheResp.StatusCode = 200) =>
               (TheOut.val = Nil \/ Deref(TheOut.val).Error = Nil)

(***************************************************************************)
(* C9. Every request handed to the transport, by any operation, is a GET  *)
(* to a URL under https://api.yelp.com/v3 and carries the header          *)
(* Authorization: Bearer <api key>, the key the client was built with.    *)
(***************************************************************************)
C9_AuthorizedGet ==
    \A i \in 1..Len(sent) :
        /\ sent[i].Method = <<"G", "E", "T">>
        /\ StartsWith(sent[i].URL, baseURL \o <<"/">>)
        /\ sent[i].Authorization = Some(<<"B", "e", "a", "r", "e", "r", " ">> \o Deref(yf).apiKey)

\* a phone search is in flight
C9_Witness == pc = "inflight" /\ TheCall.op = "phone" /\ Len(sent) = 1

(***************************************************************************)
(* C10. A call invokes the transport at most once: whatever client.Do     *)
(* returned (a transport error, a cancellation, any status, any body),    *)
(* the call returns without handing a second request to the transport.    *)
(***************************************************************************)
C10_AtMostOneRequest ==
    /\ Len(sent) <= 1
    /\ (resp # Nil) => (Len(sent) = 1 /\ pc \in {"returned", "done"})

\* a call whose request failed in the transport has returned that error
C10_Witness == Done /\ Len(sent) = 1 /\ TheOut.err = ErrTransport

(***************************************************************************)
(* C11. In the details and reviews operations the request URL ends with   *)
(* ?locale=<escaped locale> if and only if the locale argument is not     *)
(* empty after trimming whitespace; otherwise the URL is exactly          *)
(* /businesses/{id} (details) or /businesses/{id}/reviews (reviews) under *)
(* the base URL, with no query part.                                      *)
(***************************************************************************)
Range(s) == {s[i] : i \in 1..Len(s)}
EndsWith(s, suf) == Len(s) >= Len(suf) /\ SubSeq(s, Len(s) - Len(suf) + 1, Len(s)) = suf

\* the URL of the operation without a query part
PlainURL(c) ==
    <<"h", "t", "t", "p", "s", ":", "/", "/", "a", "p", "i", ".", "y", "e", "l", "p",
      ".", "c", "o", "m", "/", "v", "3", "/", "b", "u", "s", "i", "n", "e", "s", "s", "e", "s", "/">>
    \o c.busID
    \o (IF c.op = "reviews" THEN <<"/", "r", "e", "v", "i", "e", "w", "s">> ELSE <<>>)
LocaleQuery(c) == <<"?", "l", "o", "c", "a", "l", "e", "=">> \o QueryEscape(c.locale)
IsBlank(s) == \A i \in 1..Len(s) : s[i] \in {" ", "\t", "\n", "\r"}

C11_LocaleQuery ==
    (InCall /\ TheCall.op \in {"details", "reviews"} /\ req # Nil) =>
        LET url == Deref(req).URL
        IN /\ EndsWith(url, LocaleQuery(TheCall)) <=> ~IsBlank(TheCall.locale)
           /\ ~IsBlank(TheCall.locale) => url = PlainURL(TheCall) \o LocaleQuery(TheCall)
           /\ IsBlank(TheCall.locale) => (url = PlainURL(TheCall) /\ "?" \notin Range(url))
           /\ \A i \in 1..Len(sent) : sent[i].URL = url

\* a reviews request with the locale en_US is in flight
C11_Witness ==
    /\ pc = "inflight" /\ TheCall.op = "reviews" /\ Len(sent) = 1
    /\ TheCall.locale = <<"e", "n", "_", "U", "S">>
    /\ EndsWith(sent[1].URL, <<"/", "r", "e", "v", "i", "e", "w", "s", "?", "l", "o", "c",
                               "a", "l", "e", "=", "e", "n", "_", "U", "S">>)

(***************************************************************************)
(* C12. Each ...Response variant returns the transport's response         *)
(* unchanged and undecoded, with a nil error, for every status code; it   *)
(* returns an error only when validation, request construction or the     *)
(* transport itself fails.                                                *)
(***************************************************************************)
\* the error of http.NewRequest for the URL of the call, or NoErr
ConstructionError(c) ==
    IF c.op \in {"details", "reviews"} /\ "%" \in Range(c.busID) THEN ErrURLEscape ELSE NoErr

C12_ResponseReturnedAsIs ==
    (Done /\ ~TheCall.decode) =>
        /\ TheOut.val = Nil
        /\ ~body.read /\ ~body.closed
        /\ Responded => (TheOut.err = NoErr /\ TheOut.resp = Some(TheResp))
        /\ (TheOut.err # NoErr) <=>
               \/ FailsValidation(TheCall)
               \/ ConstructionError(TheCall) # NoErr
               \/ (resp # Nil /\ Deref(resp).err # NoErr)
        /\ (TheOut.err # NoErr) => TheOut.resp = Nil
        /\ (resp # Nil /\ Deref(resp).err # NoErr) => TheOut.err = Deref(resp).err
        /\ (resp = Nil /\ ~FailsValidation(TheCall)) => TheOut.err = ConstructionError(TheCall)

\* SearchBusinessResponse has returned a 404 response with its body untouched
C12_Witness ==
    /\ Done /\ ~TheCall.decode /\ TheCall.op = "search" /\ Responded
    /\ TheResp.StatusCode = 404
    /\ TheOut = Result(Nil, Some(TheResp), NoErr)

(***************************************************************************)
(* Vocabulary of C13: the key of each field and the text of its value.    *)
(***************************************************************************)
FieldKey(f) == CASE f = "Term" -> KeyTerm [] f = "Location" -> KeyLocation
                 [] f = "Latitude" -> KeyLatitude [] f = "Longitude" -> KeyLongitude
                 [] f = "Radius" -> KeyRadius [] f = "Categories" -> KeyCategories
                 [] f = "Locale" -> KeyLocale [] f = "Limit" -> KeyLimit
                 [] f = "Offset" -> KeyOffset [] f = "SortBy" -> KeySortBy
                 [] f = "Price" -> KeyPrice [] f = "OpenNow" -> KeyOpenNow
                 [] f = "OpenAt" -> KeyOpenAt [] f = "Attributes" -> KeyAttributes
FieldText(f, v) == IF f \in {"Latitude", "Longitude"} THEN FormatFloat(v)
                   ELSE IF f \in {"Radius", "Limit", "Offset", "OpenAt"} THEN FormatInt(v)
                   ELSE IF f = "OpenNow" THEN FormatBool(v)
                   ELSE QueryEscape(v)
\* the query string with clauses cl has exactly the clause of field f of b
EmitsClause(cl, b, f) == KeyedOf(cl, FieldKey(f)) = <<FieldKey(f) \o FieldText(f, Deref(b[f]))>>
EmitsNoClause(cl, f) == KeyedOf(cl, FieldKey(f)) = <<>>

(***************************************************************************)
(* C13 as stated, on records that have a Location.  After any sequence of *)
(* setter calls a field is present if and only if its setter was called,  *)
(* holds the value of the last call, and no setter changed another field; *)
(* every present field, one set to its zero value included, has its       *)
(* clause in what Params() emits, and a never-set field has none.         *)
(***************************************************************************)
C13_AsStated ==
    /\ bs = setCalls
    /\ (Built /\ bs.Location # Nil) =>
           LET cl == Clauses(PQ)
           IN \A f \in DOMAIN bs :
                  IF bs[f] # Nil THEN EmitsClause(cl, bs, f) ELSE EmitsNoClause(cl, f)

(***************************************************************************)
(* C13 amended.  After any sequence of setter calls a field is present if *)
(* and only if its setter was called, holds the value of the last call,   *)
(* and no setter changed another field.  Whenever Params() returns        *)
(* without error, every present field other than Latitude and Longitude,  *)
(* one set to its zero value included, has exactly its clause in the      *)
(* output, Latitude and Longitude have their clauses exactly when both    *)
(* are present, and a never-set field has no clause.                      *)
(***************************************************************************)
C13_SettersAndClauses ==
    /\ bs = setCalls
    /\ (Built /\ PErr = NoErr) =>
           LET cl == Clauses(PQ)
           IN \A f \in DOMAIN bs :
                  IF f \in {"Latitude", "Longitude"}
                  THEN IF HasLatLong(bs) THEN EmitsClause(cl, bs, f) ELSE EmitsNoClause(cl, f)
                  ELSE IF bs[f] # Nil THEN EmitsClause(cl, bs, f) ELSE EmitsNoClause(cl, f)

\* Params() succeeded on a record whose Location is "", Latitude 0.0,
\* Offset 0 and OpenNow false, with Term never set
C13_Witness ==
    /\ Built /\ PErr = NoErr
    /\ bs.Location = Some(<<>>) /\ bs.Latitude = Some(0) /\ bs.Longitude # Nil
    /\ bs.Offset = Some(0) /\ bs.OpenNow = Some(FALSE) /\ bs.Term = Nil
    /\ KeyedOf(Clauses(PQ), KeyOffset) = <<<<"o", "f", "f", "s", "e", "t", "=", "0">>>>
    /\ KeyedOf(Clauses(PQ), KeyLatitude)
           = <<<<"l", "a", "t", "i", "t", "u", "d", "e", "=", "0", ".", "0", "0", "0", "0", "0", "0">>>>

(***************************************************************************)
(* C14. In every run of a decoding operation in which the transport       *)
(* returned a response, the response body is closed before the call       *)
(* returns: after a successful decode, after a JSON decoding error and    *)
(* after a rejected status code.                                          *)
(***************************************************************************)
C14_BodyClosedOnReturn ==
    (Done /\ TheCall.decode /\ Responded) => body.closed

(***************************************************************************)
(* C15. Whenever Params() returns without error, whatever fields are      *)
(* present, the query string is not empty and begins with location= or    *)
(* latitude=, never with '&'.                                             *)
(***************************************************************************)
C15_BeginsWithLocation ==
    (Built /\ PErr = NoErr) =>
        /\ PQ # <<>>
        /\ StartsWith(PQ, KeyLocation) \/ StartsWith(PQ, KeyLatitude)

====
